---- MODULE Spec2Model ----
(***************************************************************************)
(* Sleeper Lineup Completeness Checker.                                    *)
(*                                                                         *)
(* Three state machines over one set of variables:                           *)
(*   SpecEval  the starter scan of one team (the loop inside the `teams`   *)
(*             memo of LineupCompletenessChecker), one step per starter;   *)
(*   SpecClassify  one call of classifyInjury on a player record;          *)
(*   Spec      the useSleeper load hook together with the league-id input, *)
(*             one step per event-loop task (user event, fetch settling).  *)
(*                                                                         *)
(* JavaScript strings are sequences of one-character strings, so that      *)
(* toLowerCase, trim, the D/ST regular expression and the template         *)
(* literals are computed.  null, undefined and "" are all the empty        *)
(* sequence: every place the code reads such a value it only tests its     *)
(* truthiness (x || y, x && y, !x).                                        *)
(***************************************************************************)
EXTENDS Integers, Sequences, FiniteSets, TLC

VARIABLES
    ev,          \* inputs of one team's scan: starters, players, bye set
    scan,        \* the loop's locals: status, flagged, position, ...
    cls,         \* one call of classifyInjury: its argument and its result
    inputValue,  \* text in the "Enter League ID" input element
    leagueId,    \* useState(DEFAULT_LEAGUE_ID)
    gen,         \* number of effect runs so far (the latest load is gen)
    loads,       \* per effect run: position of run(), its closure's locals
    shown,       \* the hook's seven useState cells, plus provenance
    lastEvent    \* "submit" right after a handler called setLeagueId

vars == <<ev, scan, cls, inputValue, leagueId, gen, loads, shown, lastEvent>>
evalVars == <<ev, scan, cls>>
loadVars == <<inputValue, leagueId, gen, loads, shown, lastEvent>>

----------------------------------------------------------------------------
(* Bounds *)

MaxStarters == 3    \* longest starter list scanned
MaxLoads == 2       \* effect runs (the mount + league-id changes)

----------------------------------------------------------------------------
(* Strings *)

UpperAlpha == <<"A","B","C","D","E","F","G","H","I","J","K","L","M",
                "N","O","P","Q","R","S","T","U","V","W","X","Y","Z">>
LowerAlpha == <<"a","b","c","d","e","f","g","h","i","j","k","l","m",
                "n","o","p","q","r","s","t","u","v","w","x","y","z">>

UpperLetters == {UpperAlpha[i] : i \in 1..26}

IsUpper(c) == c \in UpperLetters

LowerOf == [c \in UpperLetters |-> LowerAlpha[CHOOSE i \in 1..26 : UpperAlpha[i] = c]]

LowerChar(c) == IF IsUpper(c) THEN LowerOf[c] ELSE c

\* variant: the text compared as it is
toLowerCaseIdentity(s) == s

\* String.prototype.toLowerCase
toLowerCase(s) == [i \in 1..Len(s) |-> LowerChar(s[i])]

\* String.prototype.trim (the only white space the model types is " ")
RECURSIVE trim(_)
trim(s) ==
    IF s = <<>> THEN s
    ELSE IF Head(s) = " " THEN trim(Tail(s))
    ELSE IF s[Len(s)] = " " THEN trim(SubSeq(s, 1, Len(s) - 1))
    ELSE s

\* a || b on strings
OrElse(a, b) == IF a # <<>> THEN a ELSE b

S_Out == <<"O","u","t">>
S_OUT == <<"O","U","T">>
S_IR == <<"I","R">>
S_PUP == <<"P","U","P">>
S_Questionable == <<"Q","u","e","s","t","i","o","n","a","b","l","e">>
S_Doubtful == <<"D","o","u","b","t","f","u","l">>
S_Suspension == <<"S","u","s","p","e","n","s","i","o","n">>
S_BYE == <<"B","Y","E">>
S_DST == <<" ","D","/","S","T">>
S_Active == <<"A","c","t","i","v","e">>

----------------------------------------------------------------------------
(* Static data *)

ARI == <<"A","R","I">>
ATL == <<"A","T","L">>
BAL == <<"B","A","L">>
BUF == <<"B","U","F">>
CAR == <<"C","A","R">>
CHI == <<"C","H","I">>
CIN == <<"C","I","N">>
CLE == <<"C","L","E">>
DAL == <<"D","A","L">>
DEN == <<"D","E","N">>
DET == <<"D","E","T">>
GB  == <<"G","B">>
HOU == <<"H","O","U">>
IND == <<"I","N","D">>
JAX == <<"J","A","X">>
KC  == <<"K","C">>
LAC == <<"L","A","C">>
LAR == <<"L","A","R">>
LV  == <<"L","V">>
MIA == <<"M","I","A">>
MIN == <<"M","I","N">>
NE  == <<"N","E">>
NO  == <<"N","O">>
NYG == <<"N","Y","G">>
NYJ == <<"N","Y","J">>
PHI == <<"P","H","I">>
PIT == <<"P","I","T">>
SEA == <<"S","E","A">>
SF  == <<"S","F">>
TB  == <<"T","B">>
TEN == <<"T","E","N">>
WAS == <<"W","A","S">>

BYE_MAP_2025 ==
    [w \in 5..14 |->
        CASE w = 5  -> {PIT, CHI, GB, ATL}
          [] w = 6  -> {HOU, MIN}
          [] w = 7  -> {BAL, BUF}
          [] w = 8  -> {JAX, LV, DET, ARI, SEA, LAR}
          [] w = 9  -> {PHI, CLE, NYJ, TB}
          [] w = 10 -> {KC, CIN, TEN, DAL}
          [] w = 11 -> {IND, NO}
          [] w = 12 -> {MIA, DEN, LAC, WAS}
          [] w = 13 -> {}
          [] w = 14 -> {NYG, NE, CAR, SF}]

\* new Set(BYE_MAP_2025[Number(week)] || []); week 0 stands for undefined
byeTeamsThisWeek(week) ==
    IF week \in DOMAIN BYE_MAP_2025 THEN BYE_MAP_2025[week] ELSE {}

----------------------------------------------------------------------------
(* Pure functions of the evaluator *)

\* variant: /^[A-Z]{3,4}$/
isDSTStarterId3(pid) ==
    /\ Len(pid) >= 3
    /\ Len(pid) <= 4
    /\ \A i \in 1..Len(pid) : IsUpper(pid[i])

\* /^[A-Z]{2,4}$/.test(pid)
isDSTStarterId(pid) ==
    /\ Len(pid) >= 2
    /\ Len(pid) <= 4
    /\ \A i \in 1..Len(pid) : IsUpper(pid[i])

\* the three literal arrays of classifyInjury
OutInjuryStatuses ==
    { <<"o","u","t">>, <<"i","r">>, <<"s","u","s","p","e","n","d","e","d">>,
      <<"p","u","p">> }
OutStatuses ==
    { <<"i","r">>, <<"s","u","s","p","e","n","s","i","o","n">>, <<"p","u","p">> }
PotentialInjuryStatuses ==
    { <<"q","u","e","s","t","i","o","n","a","b","l","e">>,
      <<"d","o","u","b","t","f","u","l">> }

classifyInjury(player) ==
    LET inj == toLowerCase(player.injury_status)
        status == toLowerCase(player.status)
    IN  IF inj \in OutInjuryStatuses \/ status \in OutStatuses
        THEN "INCOMPLETE"
        ELSE IF inj \in PotentialInjuryStatuses
        THEN "POTENTIAL"
        ELSE "OK"

\* `${p.first_name || ""} ${p.last_name || ""}`.trim()
fullName(p) == trim(p.first_name \o <<" ">> \o p.last_name)

\* (m.starters || []).filter(Boolean)
filterBoolean(starters) == SelectSeq(starters, LAMBDA pid : pid # <<>>)

----------------------------------------------------------------------------
(* The starter loop of the `teams` memo *)

\* let status = "OK"; const flagged = [];
\* tiers, looked, pos and stopped are bookkeeping of the loop itself: the
\* tier that appended each flagged entry, the ids read from `players`,
\* the number of starters the for-of has consumed, and whether `break` ran.
ScanStart ==
    [status |-> "OK", flagged |-> <<>>, tiers |-> <<>>, looked |-> {},
     pos |-> 0, stopped |-> FALSE, pushed |-> FALSE]

\* variants: a loop that never breaks, a loop that breaks on any flag
stopsScanNever(tier) == FALSE
stopsScanAnyFlag(tier) == TRUE

\* the three `break` statements: each follows status = "INCOMPLETE"
stopsScan(tier) == tier = "INCOMPLETE"

\* variant: the entry is pushed, status is not assigned
FlagKeepStatus(s, tier, entry) ==
    [s EXCEPT !.flagged = Append(@, entry),
              !.tiers = Append(@, tier),
              !.stopped = stopsScan(tier)]

\* status = tier; flagged.push(entry); [break;]
Flag(s, tier, entry) ==
    [s EXCEPT !.status = tier,
              !.flagged = Append(@, entry),
              !.tiers = Append(@, tier),
              !.stopped = stopsScan(tier)]

\* `${pid} D/ST`
dstName(pid) == pid \o S_DST

\* variants: no bye check for players; the bye check made after the injury check
playerOnByeNever(p, bye) == FALSE
playerOnByeAfterInjury(p, bye) ==
    p.team # <<>> /\ p.team \in bye /\ classifyInjury(p) = "OK"

\* team && byeTeamsThisWeek.has(team)
playerOnBye(p, bye) == p.team # <<>> /\ p.team \in bye

\* variant: the missing player ends the scan
onMissingBreak(s) == [s EXCEPT !.stopped = TRUE]

\* if (!p) continue;
onMissing(s) == s

\* variant: (p.status || p.injury_status || "Out")
incompleteReasonStatusFirst(p) == OrElse(OrElse(p.status, p.injury_status), S_Out)

\* (p.injury_status || p.status || "Out").toString()
incompleteReason(p) == OrElse(OrElse(p.injury_status, p.status), S_Out)

\* p.injury_status || "Questionable"
potentialReason(p) == OrElse(p.injury_status, S_Questionable)

\* which arm of the loop body a starter takes
Branch(s, pid, players, bye) ==
    IF isDSTStarterId(pid)
    THEN IF pid \in bye THEN "dstBye" ELSE "dstSkip"
    ELSE IF pid \notin DOMAIN players THEN "missing"
    ELSE IF playerOnBye(players[pid], bye) THEN "playerBye"
    ELSE IF classifyInjury(players[pid]) = "INCOMPLETE" THEN "injIncomplete"
    ELSE IF classifyInjury(players[pid]) = "POTENTIAL" /\ s.status # "INCOMPLETE"
    THEN "injPotential"
    ELSE "noEffect"

\* one iteration of `for (const pid of starters)`
LoopBody(s0, pid, players, bye) ==
    LET s == [s0 EXCEPT !.pos = @ + 1] IN
    IF isDSTStarterId(pid)
    THEN IF pid \in bye
         THEN Flag(s, "INCOMPLETE",
                   [pid |-> pid, name |-> dstName(pid), reason |-> S_BYE])
         ELSE s
    ELSE LET s1 == [s EXCEPT !.looked = @ \cup {pid}] IN
         IF pid \notin DOMAIN players THEN onMissing(s1)
         ELSE LET p == players[pid] IN
              IF playerOnBye(p, bye)
              THEN Flag(s1, "INCOMPLETE",
                        [pid |-> pid, name |-> fullName(p), reason |-> S_BYE])
              ELSE LET bucket == classifyInjury(p) IN
                   IF bucket = "INCOMPLETE"
                   THEN Flag(s1, "INCOMPLETE",
                             [pid |-> pid, name |-> fullName(p),
                              reason |-> incompleteReason(p)])
                   ELSE IF bucket = "POTENTIAL" /\ s1.status # "INCOMPLETE"
                   THEN Flag(s1, "POTENTIAL",
                             [pid |-> pid, name |-> fullName(p),
                              reason |-> potentialReason(p)])
                   ELSE s1

\* the whole loop, from the state s on
RECURSIVE ScanFrom(_, _, _, _)
ScanFrom(s, starters, players, bye) ==
    IF s.stopped \/ s.pos >= Len(starters) THEN s
    ELSE ScanFrom(LoopBody(s, starters[s.pos + 1], players, bye),
                  starters, players, bye)

\* status and flagged of one matchup entry, as pushed to `out`
EvaluateStarters(rawStarters, players, bye) ==
    ScanFrom(ScanStart, filterBoolean(rawStarters), players, bye)

----------------------------------------------------------------------------
(* Scan of one team, a step per starter: inputs *)

Player(first, last, team, inj, st) ==
    [first_name |-> first, last_name |-> last, team |-> team,
     injury_status |-> inj, status |-> st]

N_Al == <<"A","l">>
N_Bo == <<"B","o">>
N_Cy == <<"C","y">>

\* entries of the /players/nfl dictionary the scans are run on
P_Healthy == Player(N_Al, N_Bo, PHI, <<>>, S_Active)
P_Questionable == Player(N_Al, <<>>, PHI, S_Questionable, S_Active)
P_Out == Player(<<>>, N_Bo, PHI, S_Out, S_Active)
P_ByeQuestionable == Player(N_Bo, N_Al, KC, S_Questionable, S_Active)
P_StatusIR == Player(N_Cy, N_Bo, PHI, <<>>, S_IR)
P_ByeHealthy == Player(N_Cy, N_Al, KC, <<>>, S_Active)
P_ByeOut == Player(N_Bo, N_Cy, KC, S_OUT, S_Active)
P_FreeDoubtful == Player(N_Al, N_Cy, <<>>, S_Doubtful, <<>>)
P_QuestionableIR == Player(N_Cy, N_Cy, PHI, S_Questionable, S_IR)

Pid10 == <<"1","0">>
Pid23 == <<"2","3">>
PidK == <<"K">>      \* a kicker slot id of one letter: not a team code

\* what a matchup's starters array holds: player ids, team codes, empty slots
StarterIds == {Pid10, Pid23, PidK, KC, PHI, <<>>}

EvalWeeks == {10, 13}     \* KC rests in week 10, nobody in week 13

StarterLists == UNION {[1..n -> StarterIds] : n \in 0..MaxStarters}

\* player "10" is always known, player "23" may be missing, "K" always is
PlayerDicts ==
    { [pid \in {Pid10} |-> a] :
        a \in {P_Healthy, P_Questionable, P_Out, P_ByeQuestionable} }
    \cup
    { [pid \in {Pid10, Pid23} |-> IF pid = Pid10 THEN a ELSE b] :
        a \in {P_Healthy, P_Questionable, P_Out, P_ByeQuestionable},
        b \in {P_StatusIR, P_ByeHealthy, P_ByeOut, P_FreeDoubtful, P_QuestionableIR} }

\* const starters = (m.starters || []).filter(Boolean), computed once
EvStarters == ev.list
EvBye == byeTeamsThisWeek(ev.week)

----------------------------------------------------------------------------
(* The load hook: state before the mount effect has run *)

DEFAULT_LEAGUE_ID == <<"A">>

FetchKeys == {"users", "rosters", "matchups", "players"}
ShownKeys == {"state"} \cup FetchKeys

\* a run of the effect that has not happened yet, or whose closure is gone;
\* hasNfl: the local `nfl` is bound (the state fetch has resolved)
NoLoad ==
    [pc |-> "idle", aborted |-> FALSE, league |-> <<>>, hasNfl |-> FALSE,
     issued |-> {}, fetched |-> [k \in FetchKeys |-> <<>>], got |-> {}]

\* the useState initial values of useSleeper; a nullable cell is <<>> for
\* null and <<v>> for the value v; src[k] is the run whose fetch result
\* cell k holds (0: none)
InitialShown ==
    [state |-> <<>>, users |-> <<>>, rosters |-> <<>>, matchups |-> <<>>,
     players |-> <<>>, loading |-> TRUE, error |-> <<>>,
     src |-> [k \in ShownKeys |-> 0]]

InitEvalIdle ==
    /\ ev = [starters |-> <<>>, list |-> <<>>, players |-> <<>>, week |-> 0]
    /\ scan = ScanStart
    /\ cls = [player |-> Player(<<>>, <<>>, <<>>, <<>>, <<>>), result |-> "none"]

InitLoadIdle ==
    /\ inputValue = DEFAULT_LEAGUE_ID
    /\ leagueId = DEFAULT_LEAGUE_ID
    /\ gen = 0
    /\ loads = [g \in 1..MaxLoads |-> NoLoad]
    /\ shown = InitialShown
    /\ lastEvent = "other"

----------------------------------------------------------------------------
(* Scan of one team, a step per starter: actions *)

InitEval ==
    /\ \E raw \in StarterLists, dict \in PlayerDicts, w \in EvalWeeks :
          ev = [starters |-> raw, list |-> filterBoolean(raw),
                players |-> dict, week |-> w]
    /\ scan = ScanStart
    /\ cls = [player |-> Player(<<>>, <<>>, <<>>, <<>>, <<>>), result |-> "none"]
    /\ InitLoadIdle

\* the for-of is about to hand the next starter to the loop body
AtStarter ==
    /\ ~scan.pushed
    /\ ~scan.stopped
    /\ scan.pos < Len(EvStarters)

NextPid == EvStarters[scan.pos + 1]

Arm == Branch(scan, NextPid, ev.players, EvBye)

ScanDSTBye ==
    /\ AtStarter
    /\ Arm = "dstBye"
    /\ scan' = LoopBody(scan, NextPid, ev.players, EvBye)
    /\ UNCHANGED <<ev, cls, loadVars>>

ScanDSTSkip ==
    /\ AtStarter
    /\ Arm = "dstSkip"
    /\ scan' = LoopBody(scan, NextPid, ev.players, EvBye)
    /\ UNCHANGED <<ev, cls, loadVars>>

ScanMissing ==
    /\ AtStarter
    /\ Arm = "missing"
    /\ scan' = LoopBody(scan, NextPid, ev.players, EvBye)
    /\ UNCHANGED <<ev, cls, loadVars>>

ScanPlayerBye ==
    /\ AtStarter
    /\ Arm = "playerBye"
    /\ scan' = LoopBody(scan, NextPid, ev.players, EvBye)
    /\ UNCHANGED <<ev, cls, loadVars>>

ScanInjIncomplete ==
    /\ AtStarter
    /\ Arm = "injIncomplete"
    /\ scan' = LoopBody(scan, NextPid, ev.players, EvBye)
    /\ UNCHANGED <<ev, cls, loadVars>>

ScanInjPotential ==
    /\ AtStarter
    /\ Arm = "injPotential"
    /\ scan' = LoopBody(scan, NextPid, ev.players, EvBye)
    /\ UNCHANGED <<ev, cls, loadVars>>

ScanNoEffect ==
    /\ AtStarter
    /\ Arm = "noEffect"
    /\ scan' = LoopBody(scan, NextPid, ev.players, EvBye)
    /\ UNCHANGED <<ev, cls, loadVars>>

\* out.push({ ..., status, flagged, ... }) after the loop ended or broke
PushTeam ==
    /\ ~scan.pushed
    /\ scan.stopped \/ scan.pos >= Len(EvStarters)
    /\ scan' = [scan EXCEPT !.pushed = TRUE]
    /\ UNCHANGED <<ev, cls, loadVars>>

NextEval ==
    \/ ScanDSTBye
    \/ ScanDSTSkip
    \/ ScanMissing
    \/ ScanPlayerBye
    \/ ScanInjIncomplete
    \/ ScanInjPotential
    \/ ScanNoEffect
    \/ PushTeam

SpecEval == InitEval /\ [][NextEval]_vars

----------------------------------------------------------------------------
(* One call of classifyInjury *)

S_out == <<"o","u","t">>
S_oUt == <<"o","U","t">>
S_ir == <<"i","r">>
S_Ir == <<"I","r">>
S_Suspended == <<"S","u","s","p","e","n","d","e","d">>
S_SUSPENDED == <<"S","U","S","P","E","N","D","E","D">>
S_SUSPENSION == <<"S","U","S","P","E","N","S","I","O","N">>
S_pup == <<"p","u","p">>
S_Pup == <<"P","u","p">>
S_QUESTIONABLE == <<"Q","U","E","S","T","I","O","N","A","B","L","E">>
S_doubtful == <<"d","o","u","b","t","f","u","l">>
S_OutForSeason == <<"O","u","t"," ","f","o","r"," ","s","e","a","s","o","n">>
S_Probable == <<"P","r","o","b","a","b","l","e">>
S_NA == <<"N","A">>

\* player.injury_status values (<<>>: null, undefined or absent)
InjuryTexts ==
    { <<>>, S_Out, S_OUT, S_out, S_oUt, S_IR, S_ir, S_Ir, S_Suspended,
      S_SUSPENDED, S_PUP, S_pup, S_Questionable, S_QUESTIONABLE, S_Doubtful,
      S_doubtful, S_OutForSeason, S_Suspension, S_Probable, S_NA }

\* player.status values
StatusTexts ==
    { <<>>, S_Active, S_IR, S_ir, S_Suspension, S_SUSPENSION, S_PUP, S_Pup,
      S_Suspended, S_Out, S_Questionable }

InitClassify ==
    /\ \E inj \in InjuryTexts, st \in StatusTexts :
          cls = [player |-> Player(N_Al, N_Bo, PHI, inj, st), result |-> "none"]
    /\ ev = [starters |-> <<>>, list |-> <<>>, players |-> <<>>, week |-> 0]
    /\ scan = ScanStart
    /\ InitLoadIdle

\* const bucket = classifyInjury(p)
Classify ==
    /\ cls.result = "none"
    /\ cls' = [cls EXCEPT !.result = classifyInjury(cls.player)]
    /\ UNCHANGED <<ev, scan, loadVars>>

NextClassify == Classify

SpecClassify == InitClassify /\ [][NextClassify]_vars

----------------------------------------------------------------------------
(* The load hook: what the Sleeper API answers *)

LeagueA == <<"A">>
LeagueB == <<"B">>

\* the texts typed into the input element
InputTexts == {<<"A">>, <<" ","B">>, <<>>}

\* /state/nfl answers; 0 stands for an absent field
NflStates ==
    { [display_week |-> 10, week |-> 10, leg |-> 10, season_type |-> "regular"],
      [display_week |-> 0, week |-> 13, leg |-> 13, season_type |-> "regular"] }

\* a || b on numbers
OrElseNum(a, b) == IF a # 0 THEN a ELSE b

\* nfl.display_week || nfl.week || nfl.leg (also state?.display_week || ...)
weekOf(st) ==
    IF st = <<>> THEN 0
    ELSE OrElseNum(OrElseNum(st[1].display_week, st[1].week), st[1].leg)

U1 == <<"u","1">>
U2 == <<"u","2">>
U9 == <<"u","9">>

User(id, display, username, team, avatar) ==
    [user_id |-> id, display_name |-> display, username |-> username,
     team_name |-> team, avatar |-> avatar]

\* /league/<id>/users
UsersOf(league) ==
    IF league = LeagueA
    THEN << User(U1, N_Al, N_Al, <<"A","c","e","s">>, <<"a","v">>),
            User(U2, <<>>, N_Bo, <<>>, <<>>) >>
    ELSE IF league = LeagueB
    THEN << User(U2, N_Cy, N_Cy, <<>>, <<>>) >>
    ELSE <<>>

\* /league/<id>/rosters
RostersOf(league) ==
    IF league = LeagueA
    THEN << [roster_id |-> 1, owner_id |-> U1], [roster_id |-> 2, owner_id |-> U2] >>
    ELSE IF league = LeagueB
    THEN << [roster_id |-> 1, owner_id |-> U9] >>
    ELSE <<>>

\* /league/<id>/matchups/<week>: an array, or (unknown league) not an array
MatchupsOf(league) ==
    IF league = LeagueA
    THEN [isArray |-> TRUE,
          value |-> << [roster_id |-> 1, starters |-> <<Pid10, KC>>, matchup_id |-> 1],
                       [roster_id |-> 2, starters |-> <<Pid23, <<>>, PHI>>, matchup_id |-> 1] >>]
    ELSE IF league = LeagueB
    THEN [isArray |-> TRUE,
          value |-> << [roster_id |-> 1, starters |-> <<Pid10, Pid23>>, matchup_id |-> 1] >>]
    ELSE [isArray |-> FALSE, value |-> <<>>]

\* /players/nfl
PlayersAnswer ==
    [pid \in {Pid10, Pid23} |-> IF pid = Pid10 THEN P_Questionable ELSE P_ByeHealthy]

\* what fetch(...).then(r => r.json()) of key k resolves to in a run
Answer(l, k) ==
    CASE k = "users" -> UsersOf(l.league)
      [] k = "rosters" -> RostersOf(l.league)
      [] k = "matchups" -> MatchupsOf(l.league)
      [] k = "players" -> PlayersAnswer

\* e.message of a rejected fetch or json(): a TypeError text, or empty
ErrorMessages == {<<"Failed to fetch">>, <<>>}

----------------------------------------------------------------------------
(* The load hook: useSleeper *)

\* variant: a run that never sees its `aborted` flag set
isAbortedNever(l) == FALSE

\* `aborted`, as read by a run after an await and in its finally block
isAborted(l) == l.aborted

\* variant: setError(e?.message)
errorTextNoDefault(msg) == msg

\* e?.message || "Failed to load data"
errorText(msg) == OrElse(msg, <<"Failed to load data">>)

\* variant: the continuation runs as soon as one fetch has resolved
allResolvedAny(f) == \E k \in FetchKeys : f[k] # <<>>

\* Promise.all([...]) is fulfilled once each of the four is
allResolved(f) == \A k \in FetchKeys : f[k] # <<>>

\* the resolved value of one element of [u, r, m, p]
ValueOf(f, k) == IF f[k] = <<>> THEN <<>> ELSE f[k][1]

\* setLoading(true); setError(null); then the state fetch is issued
RunStarted(sh) == [sh EXCEPT !.loading = TRUE, !.error = <<>>]

\* catch (e) { setError(...) } finally { if (!aborted) setLoading(false) }
CatchFinally(sh, l, msg) ==
    [sh EXCEPT !.error = errorText(msg),
               !.loading = IF isAborted(l) THEN @ ELSE FALSE]

\* setUsers(u); setRosters(r); setMatchups(Array.isArray(m) ? m : []);
\* setPlayers(p); finally { if (!aborted) setLoading(false) }
ApplyAll(sh, l, g) ==
    [sh EXCEPT !.users = ValueOf(l.fetched, "users"),
               !.rosters = ValueOf(l.fetched, "rosters"),
               !.matchups = IF l.fetched["matchups"] # <<>>
                               /\ l.fetched["matchups"][1].isArray
                            THEN l.fetched["matchups"][1].value
                            ELSE <<>>,
               !.players = l.fetched["players"],
               !.src = [k \in ShownKeys |-> IF k \in FetchKeys THEN g ELSE @[k]],
               !.loading = IF isAborted(l) THEN @ ELSE FALSE]

\* a run that has ended: its closure (the pending results) is dropped; got
\* keeps which results the fulfilled Promise.all handed to [u, r, m, p]
Ended(l, pc, got) == [NoLoad EXCEPT !.pc = pc, !.aborted = l.aborted, !.got = got]

Resolved(f) == {k \in FetchKeys : f[k] # <<>>}

\* the effect body: let aborted = false; run() up to its first await;
\* before it, the cleanup of the previous run: aborted = true
StartRun(g, id) ==
    /\ loads' = [h \in 1..MaxLoads |->
                    IF h = g
                    THEN [NoLoad EXCEPT !.pc = "awaitState", !.league = id,
                                        !.issued = {"state"}]
                    ELSE IF h = g - 1 THEN [loads[h] EXCEPT !.aborted = TRUE]
                    ELSE loads[h]]
    /\ shown' = RunStarted(shown)
    /\ gen' = g

\* the component mounts: the effect runs for DEFAULT_LEAGUE_ID
Mount ==
    /\ gen = 0
    /\ StartRun(1, leagueId)
    /\ lastEvent' = "other"
    /\ UNCHANGED <<inputValue, leagueId, evalVars>>

\* the user edits the input element (uncontrolled: defaultValue only)
TypeInput ==
    /\ gen >= 1
    /\ \E v \in InputTexts :
          /\ v # inputValue
          /\ inputValue' = v
    /\ lastEvent' = "other"
    /\ UNCHANGED <<leagueId, gen, loads, shown, evalVars>>

\* setLeagueId(id): a changed id re-renders, runs the cleanup of the
\* previous effect and then the effect again; an equal id leaves the
\* dependency [leagueId] as it was and nothing runs
SetLeagueId(id) ==
    IF id = leagueId
    THEN UNCHANGED <<leagueId, gen, loads, shown>>
    ELSE /\ gen < MaxLoads
         /\ leagueId' = id
         /\ StartRun(gen + 1, id)

\* onKeyDown with e.key === "Enter": setLeagueId(e.target.value.trim())
PressEnter ==
    /\ gen >= 1
    /\ SetLeagueId(trim(inputValue))
    /\ lastEvent' = "submit"
    /\ UNCHANGED <<inputValue, evalVars>>

\* onClick of Load: if (el?.value) setLeagueId(el.value.trim())
ClickLoad ==
    /\ gen >= 1
    /\ IF inputValue # <<>>
       THEN SetLeagueId(trim(inputValue)) /\ lastEvent' = "submit"
       ELSE UNCHANGED <<leagueId, gen, loads, shown>> /\ lastEvent' = "other"
    /\ UNCHANGED <<inputValue, evalVars>>

\* the state fetch resolves: if (aborted) return; setState(nfl); the four
\* fetches are issued
StateResolved ==
    \E g \in 1..MaxLoads, nfl \in NflStates :
        /\ loads[g].pc = "awaitState"
        /\ IF isAborted(loads[g])
           THEN /\ loads' = [loads EXCEPT ![g] = Ended(@, "returned", {})]
                /\ UNCHANGED shown
           ELSE /\ loads' = [loads EXCEPT ![g].pc = "awaitAll",
                                          ![g].hasNfl = TRUE,
                                          ![g].issued = @ \cup FetchKeys]
                /\ shown' = [shown EXCEPT !.state = <<nfl>>, !.src["state"] = g]
        /\ lastEvent' = "other"
        /\ UNCHANGED <<inputValue, leagueId, gen, evalVars>>

\* the state fetch (or its json()) rejects
StateFailed ==
    \E g \in 1..MaxLoads, msg \in ErrorMessages :
        /\ loads[g].pc = "awaitState"
        /\ loads' = [loads EXCEPT ![g] = Ended(@, "failed", {})]
        /\ shown' = CatchFinally(shown, loads[g], msg)
        /\ lastEvent' = "other"
        /\ UNCHANGED <<inputValue, leagueId, gen, evalVars>>

\* one of the four fetches resolves; when that fulfils Promise.all the
\* continuation runs in the same task: if (aborted) return; the four sets
FetchResolved ==
    \E g \in 1..MaxLoads, k \in FetchKeys :
        /\ loads[g].pc = "awaitAll"
        /\ loads[g].fetched[k] = <<>>
        /\ LET l == [loads[g] EXCEPT !.fetched[k] = <<Answer(loads[g], k)>>] IN
           IF ~allResolved(l.fetched)
           THEN /\ loads' = [loads EXCEPT ![g] = l]
                /\ UNCHANGED shown
           ELSE IF isAborted(l)
           THEN /\ loads' = [loads EXCEPT ![g] = Ended(l, "returned", Resolved(l.fetched))]
                /\ UNCHANGED shown
           ELSE /\ loads' = [loads EXCEPT ![g] = Ended(l, "applied", Resolved(l.fetched))]
                /\ shown' = ApplyAll(shown, l, g)
        /\ lastEvent' = "other"
        /\ UNCHANGED <<inputValue, leagueId, gen, evalVars>>

\* one of the four fetches rejects: Promise.all rejects at once and the
\* catch runs; what the other three still deliver is dropped
FetchFailed ==
    \E g \in 1..MaxLoads, k \in FetchKeys, msg \in ErrorMessages :
        /\ loads[g].pc = "awaitAll"
        /\ loads[g].fetched[k] = <<>>
        /\ loads' = [loads EXCEPT ![g] = Ended(@, "failed", {})]
        /\ shown' = CatchFinally(shown, loads[g], msg)
        /\ lastEvent' = "other"
        /\ UNCHANGED <<inputValue, leagueId, gen, evalVars>>

----------------------------------------------------------------------------
(* The memos of LineupCompletenessChecker, computed from the hook's cells *)

\* new Map(list.map(x => [x[key], x])).get(id): the last entry wins
MapGet(list, key, id) ==
    LET at == {i \in DOMAIN list : list[i][key] = id}
    IN  IF at = {} THEN <<>>
        ELSE <<list[CHOOSE i \in at : \A j \in at : j <= i]>>

\* user?.metadata?.team_name || user?.display_name || user?.username
\*   || `Team ${user?.user_id}`
displayTeamName(user) ==
    IF user = <<>> THEN <<"T","e","a","m"," ","undefined">>
    ELSE OrElse(user[1].team_name,
           OrElse(user[1].display_name,
             OrElse(user[1].username, <<"T","e","a","m"," ">> \o user[1].user_id)))

avatarUrl(avatarId, size) ==
    IF avatarId = <<>> THEN <<>>
    ELSE <<"https://sleepercdn.com/avatars/">>
         \o (IF size = "thumbs" THEN <<"thumbs/">> ELSE <<>>) \o avatarId

\* const teams = useMemo(...)
Teams(sh) ==
    IF sh.players = <<>> THEN <<>>
    ELSE [i \in DOMAIN sh.matchups |->
            LET m == sh.matchups[i]
                roster == MapGet(sh.rosters, "roster_id", m.roster_id)
                owner == IF roster = <<>> THEN <<>>
                         ELSE MapGet(sh.users, "user_id", roster[1].owner_id)
                r == EvaluateStarters(m.starters, sh.players[1],
                                      byeTeamsThisWeek(weekOf(sh.state)))
            IN  [roster_id |-> m.roster_id,
                 name |-> displayTeamName(owner),
                 avatar |-> avatarUrl(IF owner = <<>> THEN <<>> ELSE owner[1].avatar,
                                      "thumbs"),
                 status |-> r.status,
                 flagged |-> r.flagged,
                 matchup_id |-> m.matchup_id]]

\* variant: a group also takes the teams of the next higher Verdict
groupedOverlapping(teams) ==
    [t \in {"OK", "POTENTIAL", "INCOMPLETE"} |->
        SelectSeq(teams, LAMBDA x : \/ x.status = t
                                    \/ (t = "POTENTIAL" /\ x.status = "INCOMPLETE")
                                    \/ (t = "OK" /\ x.status = "POTENTIAL"))]

\* const grouped = useMemo(...): for (const t of teams) g[t.status].push(t)
grouped(teams) ==
    [t \in {"OK", "POTENTIAL", "INCOMPLETE"} |->
        SelectSeq(teams, LAMBDA x : x.status = t)]

Init == InitLoadIdle /\ InitEvalIdle

Next ==
    \/ Mount
    \/ TypeInput
    \/ PressEnter
    \/ ClickLoad
    \/ StateResolved
    \/ StateFailed
    \/ FetchResolved
    \/ FetchFailed

Spec == Init /\ [][Next]_vars

----------------------------------------------------------------------------
(* Properties of the starter scan *)

Rank(tier) == CASE tier = "OK" -> 0 [] tier = "POTENTIAL" -> 1 [] tier = "INCOMPLETE" -> 2

MaxOf(S) == CHOOSE x \in S : \A y \in S : y <= x

Letters == {"A","B","C","D","E","F","G","H","I","J","K","L","M",
            "N","O","P","Q","R","S","T","U","V","W","X","Y","Z"}

\* 2-4 uppercase letters
TeamCodeShape(pid) == Len(pid) \in 2..4 /\ \A i \in 1..Len(pid) : pid[i] \in Letters

KnownPlayer(pid) == ~TeamCodeShape(pid) /\ pid \in DOMAIN ev.players

\* the outcome of one starter, as the Verdict rule words it
StarterOutcome(pid) ==
    IF TeamCodeShape(pid)
    THEN IF pid \in EvBye THEN "INCOMPLETE" ELSE "OK"
    ELSE IF pid \notin DOMAIN ev.players THEN "OK"
    ELSE IF ev.players[pid].team \in EvBye THEN "INCOMPLETE"
    ELSE classifyInjury(ev.players[pid])

OutcomeRanks(list) == {Rank(StarterOutcome(list[i])) : i \in DOMAIN list}

\* positions of the (filtered) starter list whose outcome is INCOMPLETE
IncompleteAt == {i \in DOMAIN EvStarters : StarterOutcome(EvStarters[i]) = "INCOMPLETE"}

FirstIncomplete == CHOOSE i \in IncompleteAt : \A j \in IncompleteAt : i <= j

C2_StopsAtFirstIncomplete ==
    /\ Cardinality({j \in DOMAIN scan.tiers : scan.tiers[j] = "INCOMPLETE"}) <= 1
    /\ IncompleteAt # {} =>
          /\ scan.pos <= FirstIncomplete
          /\ \A j \in DOMAIN scan.flagged :
                \E i \in 1..FirstIncomplete : EvStarters[i] = scan.flagged[j].pid
          /\ Len(scan.flagged) <= FirstIncomplete
          /\ scan.pushed => scan.pos = FirstIncomplete
    /\ (/\ scan.pushed
        /\ ev.starters = <<KC, Pid23>>
        /\ KC \in EvBye)
       => scan.flagged = <<[pid |-> KC, name |-> <<"K","C"," ","D","/","S","T">>,
                            reason |-> <<"B","Y","E">>]>>

\* a pushed team whose first INCOMPLETE starter is followed by another one
C2_Witness ==
    /\ scan.pushed
    /\ Cardinality(IncompleteAt) >= 2
    /\ FirstIncomplete < Len(EvStarters)
    /\ Len(scan.flagged) >= 1

PotentialStarters ==
    SelectSeq(EvStarters, LAMBDA pid : StarterOutcome(pid) = "POTENTIAL")

\* C3: with no INCOMPLETE starter the flagged list has exactly one entry per
\* POTENTIAL starter, in starter order, and the Verdict is POTENTIAL iff
\* there is at least one.
C3_PotentialDoesNotStop ==
    (scan.pushed /\ IncompleteAt = {}) =>
        /\ Len(scan.flagged) = Len(PotentialStarters)
        /\ \A j \in DOMAIN scan.flagged :
              /\ scan.flagged[j].pid = PotentialStarters[j]
              /\ scan.tiers[j] = "POTENTIAL"
        /\ scan.status = (IF PotentialStarters # <<>> THEN "POTENTIAL" ELSE "OK")

\* starters classified [POTENTIAL, POTENTIAL, OK]: two entries, POTENTIAL
C3_Witness ==
    /\ scan.pushed
    /\ Len(EvStarters) = 3
    /\ StarterOutcome(EvStarters[1]) = "POTENTIAL"
    /\ StarterOutcome(EvStarters[2]) = "POTENTIAL"
    /\ StarterOutcome(EvStarters[3]) = "OK"
    /\ Len(scan.flagged) = 2
    /\ scan.status = "POTENTIAL"

\* the loop body has just consumed the starter pid
Consumed(pid) ==
    /\ AtStarter
    /\ NextPid = pid
    /\ scan'.pos = scan.pos + 1

\* C9: a known player whose team rests is flagged with reason "BYE" and
\* makes the Verdict INCOMPLETE, whatever the injury classifier says of
\* that player.
C9_ByeBeforeInjury ==
    [][\A pid \in StarterIds :
         (/\ Consumed(pid)
          /\ KnownPlayer(pid)
          /\ ev.players[pid].team \in EvBye)
         => /\ scan'.status = "INCOMPLETE"
            /\ Len(scan'.flagged) = Len(scan.flagged) + 1
            /\ scan'.flagged[Len(scan'.flagged)].pid = pid
            /\ scan'.flagged[Len(scan'.flagged)].reason = <<"B","Y","E">>]_vars

\* BYE entries of players the injury classifier alone would put in
\* POTENTIAL (Questionable) have been flagged
C9_Witness ==
    /\ scan.flagged # <<>>
    /\ LET e == scan.flagged[Len(scan.flagged)] IN
         /\ KnownPlayer(e.pid)
         /\ e.reason = <<"B","Y","E">>
         /\ classifyInjury(ev.players[e.pid]) = "POTENTIAL"
    /\ scan.status = "INCOMPLETE"

\* C10: a team-code starter that rests makes the Verdict INCOMPLETE and
\* appends the entry "<CODE> D/ST" / "BYE"; one that does not rest changes
\* neither the Verdict nor the flagged list; neither is looked up in the
\* player dictionary.
C10_TeamCodeStarter ==
    [][\A pid \in StarterIds :
         (Consumed(pid) /\ TeamCodeShape(pid))
         => /\ scan'.looked = scan.looked
            /\ pid \in EvBye =>
                  /\ scan'.status = "INCOMPLETE"
                  /\ scan'.flagged =
                        Append(scan.flagged,
                               [pid |-> pid,
                                name |-> pid \o <<" ","D","/","S","T">>,
                                reason |-> <<"B","Y","E">>])
            /\ pid \notin EvBye =>
                  /\ scan'.status = scan.status
                  /\ scan'.flagged = scan.flagged]_vars

\* both cases have happened in one scan: PHI (playing) was passed over,
\* then KC (resting) was flagged
C10_Witness ==
    /\ Len(EvStarters) >= 2
    /\ EvStarters[1] = PHI
    /\ EvStarters[2] = KC
    /\ scan.pos = 2
    /\ scan.flagged = <<[pid |-> KC, name |-> <<"K","C"," ","D","/","S","T">>,
                         reason |-> <<"B","Y","E">>]>>
    /\ scan.looked = {}

\* C12: a starter id that is not a team code and is absent from the player
\* dictionary changes neither the Verdict nor the flagged list and does not
\* end the scan; a lone missing id gives Verdict OK and no flagged entry.
C12_MissingStarterSkipped ==
    [][/\ \A pid \in StarterIds :
            (/\ Consumed(pid)
             /\ ~TeamCodeShape(pid)
             /\ pid \notin DOMAIN ev.players)
            => /\ scan'.status = scan.status
               /\ scan'.flagged = scan.flagged
               /\ ~scan'.stopped
       /\ (/\ scan'.pushed
           /\ ev.list = <<Pid23>>
           /\ Pid23 \notin DOMAIN ev.players)
          => (scan'.status = "OK" /\ scan'.flagged = <<>>)]_vars

\* the missing "23" was passed over and the starter after it was flagged
C12_Witness ==
    /\ scan.pushed
    /\ ev.list = <<Pid23, Pid10>>
    /\ Pid23 \notin DOMAIN ev.players
    /\ Pid23 \in scan.looked
    /\ scan.pos = 2
    /\ Len(scan.flagged) = 1
    /\ scan.flagged[1].pid = Pid10

\* C15: a known player not on bye whom the injury classifier puts in
\* INCOMPLETE is flagged with reason = injury_status if non-empty, else
\* status if non-empty, else "Out".
C15_IncompleteReason ==
    [][\A pid \in StarterIds :
         (/\ Consumed(pid)
          /\ KnownPlayer(pid)
          /\ ev.players[pid].team \notin EvBye
          /\ classifyInjury(ev.players[pid]) = "INCOMPLETE")
         => /\ Len(scan'.flagged) = Len(scan.flagged) + 1
            /\ scan'.flagged[Len(scan'.flagged)].pid = pid
            /\ scan'.flagged[Len(scan'.flagged)].reason =
                  (IF ev.players[pid].injury_status # <<>>
                   THEN ev.players[pid].injury_status
                   ELSE IF ev.players[pid].status # <<>>
                   THEN ev.players[pid].status
                   ELSE <<"O","u","t">>)]_vars

\* INCOMPLETE through the roster status IR while injury_status says
\* Questionable: the reason shown is "Questionable"
C15_Witness ==
    /\ scan.flagged # <<>>
    /\ LET e == scan.flagged[Len(scan.flagged)] IN
         /\ KnownPlayer(e.pid)
         /\ ev.players[e.pid].status = <<"I","R">>
         /\ ev.players[e.pid].injury_status # <<>>
         /\ e.reason = ev.players[e.pid].injury_status
    /\ scan.status = "INCOMPLETE"

\* C16: the Verdict starts at OK, each step leaves it or raises it, and
\* once it is INCOMPLETE nothing but out.push follows: no starter is
\* consumed, Verdict and flagged list stay as they are.
C16_VerdictOnlyRises ==
    /\ scan.status = "OK"
    /\ [][/\ Rank(scan'.status) >= Rank(scan.status)
          /\ scan.status = "INCOMPLETE" =>
                /\ scan'.status = "INCOMPLETE"
                /\ scan'.flagged = scan.flagged
                /\ scan'.pos = scan.pos
                /\ scan'.pushed]_vars

\* OK -> POTENTIAL -> INCOMPLETE with a starter left unscanned
C16_Witness ==
    /\ scan.pushed
    /\ scan.tiers = <<"POTENTIAL", "INCOMPLETE">>
    /\ scan.status = "INCOMPLETE"
    /\ scan.pos < Len(EvStarters)

\* the outcome of the starter a flagged entry names
EntryOutcome(j) == StarterOutcome(scan.flagged[j].pid)

\* C18: the Verdict is OK exactly when nothing is flagged, INCOMPLETE
\* exactly when the last entry comes from a bye or INCOMPLETE-injury
\* starter and all earlier ones from POTENTIAL starters, POTENTIAL exactly
\* when there are entries and all come from POTENTIAL starters.
C18_VerdictFromFlagged ==
    LET n == Len(scan.flagged) IN
    /\ Len(scan.tiers) = n
    /\ scan.status = "OK" <=> n = 0
    /\ scan.status = "INCOMPLETE" <=>
          /\ n > 0
          /\ EntryOutcome(n) = "INCOMPLETE" /\ scan.tiers[n] = "INCOMPLETE"
          /\ \A j \in 1..(n - 1) :
                EntryOutcome(j) = "POTENTIAL" /\ scan.tiers[j] = "POTENTIAL"
    /\ scan.status = "POTENTIAL" <=>
          /\ n > 0
          /\ \A j \in 1..n :
                EntryOutcome(j) = "POTENTIAL" /\ scan.tiers[j] = "POTENTIAL"

\* two POTENTIAL entries, then the entry that made the team INCOMPLETE
C18_Witness ==
    /\ scan.pushed
    /\ Len(scan.flagged) = 3
    /\ scan.status = "INCOMPLETE"
    /\ EntryOutcome(3) = "INCOMPLETE"

----------------------------------------------------------------------------
(* Properties of the load hook *)

Superseded(g) == loads[g].aborted

InFlight(g) == loads[g].pc \in {"awaitState", "awaitAll"}

C5_StaleFailureNotReported ==
    [][\A g \in 1..MaxLoads :
          (Superseded(g) /\ InFlight(g) /\ loads'[g].pc = "failed")
             => shown'.error = shown.error]_vars

\* C6 (as claimed): nothing a failed run fetched is in the shown state.
C6_NoPartialResultOfFailedLoad ==
    \A g \in 1..MaxLoads :
        loads[g].pc = "failed" => \A k \in ShownKeys : shown.src[k] # g

\* C7: when the run for the latest submitted league id has failed, an
\* error message is set and the loading flag is cleared.
C7_LatestFailureReported ==
    (gen >= 1 /\ loads[gen].pc = "failed") =>
        /\ shown.error # <<>>
        /\ shown.loading = FALSE

\* the second run failed with an error that carries no message
C7_Witness ==
    /\ gen = 2
    /\ loads[2].pc = "failed"
    /\ shown.error = <<"Failed to load data">>
    /\ shown.src["state"] = 2

\* C8: within a run the four fetches are issued only once the season-state
\* fetch has resolved, and a cell is set from the run's users, rosters,
\* matchups or players only when all four have been received.
C8_JoinBeforeApply ==
    \A g \in 1..MaxLoads :
        /\ \A k \in FetchKeys : k \in loads[g].issued => loads[g].hasNfl
        /\ \A k \in FetchKeys : shown.src[k] = g => loads[g].got = FetchKeys
        /\ loads[g].pc = "awaitAll" => \A k \in FetchKeys : shown.src[k] # g

\* three of the four fetches of the current run are in, nothing is applied
C8_Witness ==
    /\ gen >= 1
    /\ loads[gen].pc = "awaitAll"
    /\ Cardinality(Resolved(loads[gen].fetched)) = 3
    /\ \A k \in FetchKeys : shown.src[k] # gen
    /\ shown.src["state"] = gen

\* the teams memo and its grouping, from what the hook shows
ShownTeams == Teams(shown)
ShownGroups == grouped(ShownTeams)
Verdicts == {"OK", "POTENTIAL", "INCOMPLETE"}

\* C13: the teams memo holds one EvaluatedTeam per matchup entry, in the
\* order of the entries; each team is in exactly one of the three groups
\* and the group sizes sum to the number of matchup entries.
C13_OneTeamPerMatchupEntry ==
    /\ Len(ShownTeams) = Len(shown.matchups)
    /\ \A i \in DOMAIN ShownTeams :
          /\ ShownTeams[i].roster_id = shown.matchups[i].roster_id
          /\ Cardinality({t \in Verdicts :
                 \E j \in DOMAIN ShownGroups[t] :
                     ShownGroups[t][j] = ShownTeams[i]}) = 1
    /\ Len(ShownGroups["OK"]) + Len(ShownGroups["POTENTIAL"])
         + Len(ShownGroups["INCOMPLETE"]) = Len(shown.matchups)

\* an applied load of two matchup entries whose teams fall in two groups
C13_Witness ==
    /\ \E g \in 1..MaxLoads : loads[g].pc = "applied"
    /\ Len(shown.matchups) = 2
    /\ \E t \in Verdicts : Len(ShownGroups[t]) = 1

\* C14: a failed run issues nothing more; a new load starts only on a
\* submission (Enter or Load); and when the latest load has failed, a
\* submission of the league id starts a new load for it.
C14_NewLoadOnResubmit ==
    [][/\ \A g \in 1..MaxLoads :
             loads[g].pc = "failed" =>
                 /\ loads'[g].pc = "failed"
                 /\ loads'[g].issued = loads[g].issued
       /\ (gen >= 1 /\ gen' # gen) => lastEvent' = "submit"
       /\ (/\ gen >= 1
           /\ loads[gen].pc = "failed"
           /\ lastEvent' = "submit")
          => /\ gen' = gen + 1
             /\ loads'[gen'].pc = "awaitState"
             /\ loads'[gen'].league = trim(inputValue)]_vars

\* C17: while the load of the latest league id is in flight, loading is
\* true.
C17_LoadingWhileLatestInFlight ==
    (gen >= 1 /\ InFlight(gen)) => shown.loading = TRUE

\* the superseded first run failed after the second had started (its
\* error is shown), and loading is still true for the second
C17_Witness ==
    /\ gen = 2
    /\ InFlight(2)
    /\ loads[1].pc = "failed"
    /\ Superseded(1)
    /\ shown.error # <<>>
    /\ shown.loading = TRUE

----------------------------------------------------------------------------
(* Properties of the injury classifier *)

\* s is the lower-case word w up to the case of its letters
SameIgnoringCase(s, w) ==
    /\ Len(s) = Len(w)
    /\ \A i \in 1..Len(w) :
          \/ s[i] = w[i]
          \/ \E j \in 1..26 : LowerAlpha[j] = w[i] /\ UpperAlpha[j] = s[i]

OneOf(s, words) == \E w \in words : SameIgnoringCase(s, w)

ExpectedTier(p) ==
    IF \/ OneOf(p.injury_status,
                { <<"o","u","t">>, <<"i","r">>,
                  <<"s","u","s","p","e","n","d","e","d">>, <<"p","u","p">> })
       \/ OneOf(p.status,
                { <<"i","r">>, <<"s","u","s","p","e","n","s","i","o","n">>,
                  <<"p","u","p">> })
    THEN "INCOMPLETE"
    ELSE IF OneOf(p.injury_status,
                  { <<"q","u","e","s","t","i","o","n","a","b","l","e">>,
                    <<"d","o","u","b","t","f","u","l">> })
    THEN "POTENTIAL"
    ELSE "OK"

====
